---- MODULE Spec2Model ----
(***************************************************************************)
(* Model of the two scripts of the repository:                             *)
(*   training_program_editor.py  - the curriculum list editor              *)
(*   quiz_generation_system.py   - the quiz cache                          *)
(*                                                                         *)
(* Strings are sequences of tokens (a token is one character or one word   *)
(* that is never split), so that str.strip(), int() and f-string           *)
(* concatenation are computed, not assumed.                                *)
(*                                                                         *)
(* training_program is a Python list of dict objects: the list is a        *)
(* sequence of object references and heap maps a reference to the dict's   *)
(* fields, so that "the record that was at position from" is the object,   *)
(* whatever its name and week_number become.                               *)
(***************************************************************************)
EXTENDS Integers, Sequences, FiniteSets, TLC

VARIABLES
    training_program,   \* editor: the list, a sequence of references
    heap,               \* editor: reference -> [week_number, name]
    output,             \* editor: the last message printed
    typed,              \* editor: the lines typed since the last menu
    running,            \* editor: main()'s while loop has not hit break
    QUIZ_CACHE,         \* quiz: the dict, quiz id -> quiz record
    clock,              \* quiz: wall clock in seconds
    console             \* quiz: the transcript of calls printed so far

vars ==
    <<training_program, heap, output, typed, running, QUIZ_CACHE, clock, console>>

editorVars == <<training_program, heap, output, typed, running>>
quizVars == <<QUIZ_CACHE, clock, console>>

-----------------------------------------------------------------------------
(* Bounds *)

\* Longest prefix of the source's week list the editor is started with.
MaxWeeks == 3

\* Number of calls made on the quiz cache.
MaxCalls == 3

-----------------------------------------------------------------------------
(* Python built-ins *)

Whitespace == {" ", "\t"}

Digits == {"0", "1", "2", "3", "4", "5", "6", "7", "8", "9"}

DigitValue(c) ==
    CASE c = "0" -> 0 [] c = "1" -> 1 [] c = "2" -> 2 [] c = "3" -> 3
      [] c = "4" -> 4 [] c = "5" -> 5 [] c = "6" -> 6 [] c = "7" -> 7
      [] c = "8" -> 8 [] c = "9" -> 9

RECURSIVE LStrip(_)
LStrip(s) ==
    IF s # <<>> /\ Head(s) \in Whitespace THEN LStrip(Tail(s)) ELSE s

RECURSIVE RStrip(_)
RStrip(s) ==
    IF s # <<>> /\ s[Len(s)] \in Whitespace
    THEN RStrip(SubSeq(s, 1, Len(s) - 1))
    ELSE s

\* str.strip(): leading and trailing whitespace removed, the inside kept.
PyStrip(s) == RStrip(LStrip(s))

RECURSIVE DigitsValue(_)
DigitsValue(s) ==
    IF s = <<>> THEN 0
    ELSE 10 * DigitsValue(SubSeq(s, 1, Len(s) - 1)) + DigitValue(s[Len(s)])

\* int(str): surrounding whitespace ignored, an optional sign, then one or
\* more decimal digits; anything else raises ValueError (ok = FALSE).
PyInt(s) ==
    LET t == PyStrip(s)
        signed == t # <<>> /\ Head(t) \in {"-", "+"}
        d == IF signed THEN Tail(t) ELSE t
        ok == d # <<>> /\ \A i \in 1..Len(d) : d[i] \in Digits
    IN  IF ~ok THEN [ok |-> FALSE, val |-> 0]
        ELSE [ok |-> TRUE,
              val |-> IF signed /\ Head(t) = "-" THEN 0 - DigitsValue(d)
                      ELSE DigitsValue(d)]

\* A Python index into a list of length n: negative indices count from the
\* end.
NormIndex(i, n) == IF i < 0 THEN i + n ELSE i

\* list[i]
ListGet(s, i) == s[NormIndex(i, Len(s)) + 1]

\* list.pop(i): the list without the element at index i.
ListPop(s, i) ==
    LET k == NormIndex(i, Len(s)) + 1
    IN  SubSeq(s, 1, k - 1) \o SubSeq(s, k + 1, Len(s))

\* list.insert(i, x): x placed before index i, i clamped to [0, len].
ListInsert(s, i, x) ==
    LET j == NormIndex(i, Len(s))
        k == IF j < 0 THEN 0 ELSE IF j > Len(s) THEN Len(s) ELSE j
    IN  SubSeq(s, 1, k) \o <<x>> \o SubSeq(s, k + 1, Len(s))

-----------------------------------------------------------------------------
(* training_program_editor.py *)

\* The names of the initial training_program, in list order.
InitialWeeks ==
    << <<"Classroom", " ", "Management", " ", "Techniques">>,
       <<"Student", " ", "Engagement", " ", "Strategies">>,
       <<"Assessment", " ", "and", " ", "Evaluation", " ", "Methods">>,
       <<"Differentiated", " ", "Instruction", " ", "Approaches">>,
       <<"Technology", " ", "Integration", " ", "in", " ", "Teaching">> >>

\* The last message printed; the fields a message does not print are blank.
Msg(kind) ==
    [kind |-> kind, week_num |-> 0, new_position |-> 0,
     name |-> <<>>, old_name |-> <<>>]

\* The messages that report a failed operation.
ErrorKinds ==
    {"cannot_rename", "invalid_week_number", "empty_name", "not_a_number",
     "cannot_reorder", "invalid_position"}

\* The editor started on the first n weeks of the source's list; the
\* operations guard for an empty and a one-element list, so every prefix is
\* a list they are written for.
EditorStart(n) ==
    /\ training_program = [i \in 1..n |-> i]
    /\ heap = [r \in 1..n |-> [week_number |-> r, name |-> InitialWeeks[r]]]
    /\ output = Msg("welcome")
    /\ typed = <<>>
    /\ running = TRUE

\* What the user may type at a numeric prompt: 0 .. N+1 in decimal, a padded
\* number, and a word.
DigitChars == <<"0", "1", "2", "3", "4", "5", "6", "7", "8", "9">>

Decimal(k) ==
    IF k < 10 THEN <<DigitChars[k + 1]>>
    ELSE <<DigitChars[(k \div 10) + 1], DigitChars[(k % 10) + 1]>>

NumberInputs ==
    {Decimal(k) : k \in 0..(Len(training_program) + 1)}
        \cup {<<" ", "1", " ">>, <<"x">>}

\* What the user may type at the name prompt.
NameInputs == {<<>>, <<" ", "\t">>, <<" ", "Intro", " ", "Week", "\t">>}

\* The lines typed after choosing "3": none, one or two numeric entries.
ReorderLines ==
    {<<>>} \cup {<<a>> : a \in NumberInputs}
           \cup {<<a, b>> : a \in NumberInputs, b \in NumberInputs}

\* The lines typed after choosing "2": none, a number, or a number and a
\* name.
RenameLines ==
    {<<>>} \cup {<<w>> : w \in NumberInputs}
           \cup {<<w, s>> : w \in NumberInputs, s \in NameInputs}

\* display_all_weeks(): prints the list, changes nothing.
display_all_weeks ==
    /\ running
    /\ output' = Msg("weeks")
    /\ typed' = << <<"1">> >>
    /\ UNCHANGED <<training_program, heap, running>>

\* rename_week line 43
InvalidWeekNum(week_num, n) == week_num < 1 \/ week_num > n

\* Fault variant of NewName: the .strip() is left out.
NewNameRaw(name_input) == name_input

\* rename_week line 47: the name typed, stripped.
NewName(name_input) == PyStrip(name_input)

\* Fault variant of MatchingWeeks: week_num is taken for a 0-based index.
MatchingWeeksByIndex(tp, h, week_num) ==
    SelectSeq(tp, LAMBDA r : h[r].week_number - 1 = week_num)

\* rename_week lines 54-55: the references of the weeks the loop visits
\* whose week_number equals week_num, in list order.
MatchingWeeks(tp, h, week_num) ==
    SelectSeq(tp, LAMBDA r : h[r].week_number = week_num)

\* rename_week(): lines are the entries typed at the prompts the call
\* shows; a prompt that is not reached reads nothing.
rename_week(lines) ==
    LET n == Len(training_program)
        Fails(kind, read) ==
            /\ Len(lines) = read
            /\ output' = Msg(kind)
            /\ UNCHANGED heap
    IN  /\ running
        /\ typed' = << <<"2">> >> \o lines
        /\ UNCHANGED <<training_program, running>>
        /\ IF n = 0 THEN Fails("cannot_rename", 0)
           ELSE
             /\ Len(lines) >= 1
             /\ \E week_num \in {PyInt(lines[1])} :   \* int(input(...)), read once
                    IF ~week_num.ok THEN Fails("not_a_number", 1)
                    ELSE IF InvalidWeekNum(week_num.val, n)
                    THEN Fails("invalid_week_number", 1)
                    ELSE
                      /\ Len(lines) = 2
                      /\ LET new_name == NewName(lines[2])
                             found == MatchingWeeks(training_program, heap,
                                                    week_num.val)
                         IN  IF new_name = <<>> THEN Fails("empty_name", 2)
                             \* the loop may end without a match: then only
                             \* the listing was printed
                             ELSE IF found = <<>> THEN Fails("weeks", 2)
                             ELSE
                               /\ heap' = [heap EXCEPT
                                             ![Head(found)].name = new_name]
                               /\ output' =
                                    [Msg("renamed") EXCEPT
                                       !.week_num = week_num.val,
                                       !.old_name = heap[Head(found)].name,
                                       !.name = new_name]

\* Fault variant of InvalidWeekToMove: the lower bound is off by one.
InvalidWeekToMoveZero(week_to_move, n) == week_to_move < 0 \/ week_to_move > n

\* reorder_weeks line 78
InvalidWeekToMove(week_to_move, n) == week_to_move < 1 \/ week_to_move > n

\* Fault variant of InvalidNewPosition: the upper bound is off by one.
InvalidNewPositionShort(new_position, n) ==
    new_position < 1 \/ new_position >= n

\* reorder_weeks line 84
InvalidNewPosition(new_position, n) == new_position < 1 \/ new_position > n

\* Fault variant of MoveWeek: inserts at new_position, not new_position - 1.
MoveWeekAtPosition(tp, week_to_move, new_position) ==
    LET week_data == ListGet(tp, week_to_move - 1)
    IN  ListInsert(ListPop(tp, week_to_move - 1), new_position, week_data)

\* Fault variant of MoveWeek: the two weeks are exchanged.
MoveWeekSwap(tp, week_to_move, new_position) ==
    [i \in 1..Len(tp) |->
        IF i = week_to_move THEN tp[new_position]
        ELSE IF i = new_position THEN tp[week_to_move]
        ELSE tp[i]]

\* reorder_weeks lines 93-100: pop at week_to_move - 1, insert at
\* new_position - 1.
MoveWeek(tp, week_to_move, new_position) ==
    LET week_data == ListGet(tp, week_to_move - 1)
    IN  ListInsert(ListPop(tp, week_to_move - 1), new_position - 1, week_data)

\* Fault variant of Renumber: the renumbering loop is left out.
RenumberNone(h, tp) == h

\* reorder_weeks lines 103-104: week_number = index + 1 for every week of
\* the list.
Renumber(h, tp) ==
    [r \in DOMAIN h |->
        IF \E i \in 1..Len(tp) : tp[i] = r
        THEN [h[r] EXCEPT !.week_number = CHOOSE i \in 1..Len(tp) : tp[i] = r]
        ELSE h[r]]

\* reorder_weeks(): lines are the entries typed at the prompts the call
\* shows; a prompt that is not reached reads nothing.
reorder_weeks(lines) ==
    LET n == Len(training_program)
        Fails(kind, read) ==
            /\ Len(lines) = read
            /\ output' = Msg(kind)
            /\ UNCHANGED <<training_program, heap>>
    IN  /\ running
        /\ typed' = << <<"3">> >> \o lines
        /\ UNCHANGED running
        /\ IF n < 2 THEN Fails("cannot_reorder", 0)
           ELSE
             /\ Len(lines) >= 1
             /\ \E week_to_move \in {PyInt(lines[1])} :   \* int(input(...))
                    IF ~week_to_move.ok THEN Fails("not_a_number", 1)
                    ELSE IF InvalidWeekToMove(week_to_move.val, n)
                    THEN Fails("invalid_week_number", 1)
                    ELSE
                      /\ Len(lines) = 2
                      /\ \E new_position \in {PyInt(lines[2])} :   \* int(input(...))
                         LET week_data == ListGet(training_program,
                                                  week_to_move.val - 1)
                             moved == MoveWeek(training_program,
                                               week_to_move.val,
                                               new_position.val)
                         IN  IF ~new_position.ok
                             THEN Fails("not_a_number", 2)
                             ELSE IF InvalidNewPosition(new_position.val, n)
                             THEN Fails("invalid_position", 2)
                             ELSE IF week_to_move.val = new_position.val
                             THEN Fails("no_changes", 2)
                             ELSE
                               /\ training_program' = moved
                               /\ heap' = Renumber(heap, moved)
                               /\ output' =
                                    [Msg("moved") EXCEPT
                                       !.name = heap[week_data].name,
                                       !.week_num = week_to_move.val,
                                       !.new_position = new_position.val]

\* main(): choice '4'
ExitEditor ==
    /\ running
    /\ running' = FALSE
    /\ output' = Msg("goodbye")
    /\ typed' = << <<"4">> >>
    /\ UNCHANGED <<training_program, heap>>

\* main(): any other choice
InvalidChoice ==
    /\ running
    /\ output' = Msg("invalid_choice")
    /\ typed' = << <<"9">> >>
    /\ UNCHANGED <<training_program, heap, running>>

-----------------------------------------------------------------------------
(* quiz_generation_system.py *)

QuizStart ==
    /\ QUIZ_CACHE = <<>>
    /\ clock = 0
    /\ console = <<>>

\* time.sleep(7)
SleepSeconds == 7

\* The content names and week ids the calls are made with.  A content name
\* is any string, so one of them reads like a checkpoint quiz id.
ContentNames ==
    { <<"Presentation-on-Classroom-Control.pdf">>,
      <<"Lesson-Plans.pdf">>,
      <<"Week 1", " Checkpoint">> }

WeekIds == { <<"Week 1">>, <<"Week 2">> }

\* line 33: f"{week_id} Checkpoint"
CheckpointId(week_id) == week_id \o <<" Checkpoint">>

\* lines 23-27: the three questions of a content quiz
ContentQuestions(content_name) ==
    << <<"Question 1 about ">> \o content_name,
       <<"Question 2 about ">> \o content_name,
       <<"Question 3 about ">> \o content_name >>

\* lines 44-47: the two questions a content adds to its week's checkpoint
CheckpointQuestions(content_name) ==
    << <<"Checkpoint question from ">> \o content_name \o <<" - Part 1">>,
       <<"Checkpoint question from ">> \o content_name \o <<" - Part 2">> >>

\* d[key] = value on a dict
DictSet(d, key, value) ==
    [k \in DOMAIN d \cup {key} |-> IF k = key THEN value ELSE d[k]]

\* One line of the transcript; the fields a call does not print are blank.
Event(op, id, week_id, found, questions) ==
    [op |-> op, id |-> id, week_id |-> week_id, found |-> found,
     questions |-> questions]

\* admin_upload_content(): lines 18-48.  generated_at is the clock reading,
\* in seconds, after the sleep.
admin_upload_content(content_name, week_id) ==
    LET now == clock + SleepSeconds
        content_quiz == [quiz_id |-> content_name,
                         questions |-> ContentQuestions(content_name),
                         generated_at |-> now]
        stored == DictSet(QUIZ_CACHE, content_name, content_quiz)
        checkpoint_quiz_id == CheckpointId(week_id)
        created ==
            IF checkpoint_quiz_id \notin DOMAIN stored
            THEN DictSet(stored, checkpoint_quiz_id,
                         [quiz_id |-> checkpoint_quiz_id,
                          questions |-> <<>>,
                          generated_at |-> now])
            ELSE stored
    IN  /\ Len(console) < MaxCalls
        /\ clock' = now
        /\ QUIZ_CACHE' =
               [created EXCEPT ![checkpoint_quiz_id].questions =
                                   @ \o CheckpointQuestions(content_name)]
        /\ console' = Append(console,
                             Event("upload", content_name, week_id, TRUE, <<>>))

\* The ids a student may ask for.
QuizIds ==
    ContentNames \cup {CheckpointId(w) : w \in WeekIds} \cup {<<"Unknown.pdf">>}

\* Fault variant of retrieve_quiz_instantly: a miss stores an empty quiz
\* under the id asked for.
retrieve_quiz_setdefault(quiz_id) ==
    /\ Len(console) < MaxCalls
    /\ IF quiz_id \in DOMAIN QUIZ_CACHE
       THEN /\ console' = Append(console,
                   Event("retrieve", QUIZ_CACHE[quiz_id].quiz_id, <<>>, TRUE,
                         QUIZ_CACHE[quiz_id].questions))
            /\ UNCHANGED QUIZ_CACHE
       ELSE /\ console' = Append(console,
                   Event("retrieve", quiz_id, <<>>, FALSE, <<>>))
            /\ QUIZ_CACHE' = DictSet(QUIZ_CACHE, quiz_id,
                                     [quiz_id |-> quiz_id, questions |-> <<>>,
                                      generated_at |-> clock])
    /\ UNCHANGED clock

\* retrieve_quiz_instantly(): lines 69-81
retrieve_quiz_instantly(quiz_id) ==
    /\ Len(console) < MaxCalls
    /\ IF quiz_id \in DOMAIN QUIZ_CACHE
       THEN console' = Append(console,
                Event("retrieve", QUIZ_CACHE[quiz_id].quiz_id, <<>>, TRUE,
                      QUIZ_CACHE[quiz_id].questions))
       ELSE console' = Append(console,
                Event("retrieve", quiz_id, <<>>, FALSE, <<>>))
    /\ UNCHANGED <<QUIZ_CACHE, clock>>

-----------------------------------------------------------------------------
(* Specifications *)

Init ==
    /\ \E n \in 0..MaxWeeks : n <= Len(InitialWeeks) /\ EditorStart(n)
    /\ QuizStart

Next ==
    \/ display_all_weeks /\ UNCHANGED quizVars
    \/ \E lines \in RenameLines : rename_week(lines) /\ UNCHANGED quizVars
    \/ \E lines \in ReorderLines : reorder_weeks(lines) /\ UNCHANGED quizVars
    \/ InvalidChoice /\ UNCHANGED quizVars
    \/ ExitEditor /\ UNCHANGED quizVars

Spec == Init /\ [][Next]_vars

\* The quiz script: any sequence of at most MaxCalls calls on the cache.
QuizInit ==
    /\ EditorStart(Len(InitialWeeks))
    /\ QuizStart

QuizNext ==
    \/ \E c \in ContentNames, w \in WeekIds :
          admin_upload_content(c, w) /\ UNCHANGED editorVars
    \/ \E q \in QuizIds :
          retrieve_quiz_instantly(q) /\ UNCHANGED editorVars

QuizSpec == QuizInit /\ [][QuizNext]_vars

-----------------------------------------------------------------------------
(* Properties of the editor, checked under Spec.                           *)
(* In a step, typed' holds the menu choice and the entries of that step,   *)
(* the unprimed variables the state before it.                             *)

N == Len(training_program)

\* The step is the operation of menu choice c.
StepIs(c) == typed' # <<>> /\ typed'[1] = <<c>>

\* The i-th line typed in the step is a number in 1..N.
ValidEntry(i) ==
    /\ Len(typed') >= i
    /\ PyInt(typed'[i]).ok
    /\ PyInt(typed'[i]).val \in 1..N

\* The number typed as the i-th line of the step.
Entry(i) == PyInt(typed'[i]).val

\* A name input with nothing but whitespace in it.
Blank(s) == \A i \in 1..Len(s) : s[i] \in Whitespace

\* week_number of the record at list index i (1-based), now and next.
NumberAt(i) == heap[training_program[i]].week_number
NumberAtNext(i) == heap'[training_program'[i]].week_number

ListUnchanged == training_program' = training_program /\ heap' = heap

\* C1: for every list of N >= 2 weeks and every from, to in 1..N, after
\* reorder_weeks(from, to) the record that was at position from is at list
\* index to, and the week_number fields read 1..N in list order.
C1_MovedWeekAtTarget ==
    [][(StepIs("3") /\ N >= 2 /\ ValidEntry(2)) =>
          /\ Len(typed') = 3
          /\ ValidEntry(3) =>
                /\ output'.kind \notin ErrorKinds
                /\ Len(training_program') = N
                /\ training_program'[Entry(3)] = training_program[Entry(2)]
                /\ \A i \in 1..N : NumberAtNext(i) = i]_vars

\* C1 witness: the first of three weeks has been moved to position 3.
C1_Witness ==
    /\ typed = << <<"3">>, <<"1">>, <<"3">> >>
    /\ output.kind = "moved"
    /\ training_program = <<2, 3, 1>>

\* C2: in every reachable state the week_number of the record at list
\* index i is i, so the positions are unique and are exactly 1..N.
C2_PositionsContiguous ==
    /\ \A i \in 1..N : NumberAt(i) = i
    /\ \A i \in 1..N, j \in 1..N :
          training_program[i] = training_program[j] => i = j
    /\ {heap[r].week_number : r \in DOMAIN heap} = 1..N

\* C2 witness: a week was renamed, and later a reorder left the list out of
\* its initial order.
C2_Witness ==
    /\ output.kind = "moved"
    /\ N = 3
    /\ training_program # <<1, 2, 3>>
    /\ \E r \in DOMAIN heap : heap[r].name # InitialWeeks[r]

\* C3: a reorder_weeks call that fails validation (N < 2, or from or to
\* not a number in 1..N) reports an error and leaves the list, the names
\* and the week numbers unchanged.
C3_RejectedReorderUnchanged ==
    [][(StepIs("3") /\ (N < 2 \/ ~ValidEntry(2) \/ ~ValidEntry(3))) =>
          /\ output'.kind \in ErrorKinds
          /\ ListUnchanged]_vars

\* C3 witness: a target position out of range was rejected on a list that
\* an earlier reorder had already permuted.
C3_Witness ==
    /\ typed = << <<"3">>, <<"2">>, <<"4">> >>
    /\ output.kind = "invalid_position"
    /\ N = 3
    /\ training_program # <<1, 2, 3>>

\* C4: reorder_weeks with from = to in 1..N, N >= 2, is not reported as an
\* error and leaves the list, the names and the week numbers unchanged.
C4_SamePositionNoOp ==
    [][(StepIs("3") /\ N >= 2 /\ ValidEntry(2) /\ ValidEntry(3)
          /\ Entry(2) = Entry(3)) =>
          /\ output'.kind \notin ErrorKinds
          /\ ListUnchanged]_vars

\* C4 witness: the last position moved to itself, typed in two spellings,
\* on a permuted list.
C4_Witness ==
    /\ typed \in { << <<"3">>, <<"3">>, <<"3">> >>,
                   << <<"3">>, <<"1">>, <<" ", "1", " ">> >> }
    /\ output.kind = "no_changes"
    /\ N = 3
    /\ training_program # <<1, 2, 3>>

\* C5: a valid move from -> to with from # to is removal then insertion:
\* the moved record lands at to, the records from the one next to from up
\* to the one at to shift by one position toward from, and the records
\* outside [min(from,to), max(from,to)] keep their index.
C5_RemoveThenInsert ==
    [][(StepIs("3") /\ N >= 2 /\ ValidEntry(2) /\ ValidEntry(3)
          /\ Entry(2) # Entry(3)) =>
          LET from == Entry(2)
              to == Entry(3)
          IN  /\ Len(training_program') = N
              /\ \A i \in 1..N :
                    training_program'[i] =
                       IF i = to THEN training_program[from]
                       ELSE IF from < to /\ from <= i /\ i < to
                            THEN training_program[i + 1]
                       ELSE IF to < from /\ to < i /\ i <= from
                            THEN training_program[i - 1]
                       ELSE training_program[i]]_vars

\* C5 witness: the example of the specification, [(1,A),(2,B),(3,C)] with
\* 1 moved to 3 giving [(1,B),(2,C),(3,A)], on the first three weeks.
C5_Witness ==
    /\ typed = << <<"3">>, <<"1">>, <<"3">> >>
    /\ N = 3
    /\ [i \in 1..3 |-> heap[training_program[i]]] =
          << [week_number |-> 1, name |-> InitialWeeks[2]],
             [week_number |-> 2, name |-> InitialWeeks[3]],
             [week_number |-> 3, name |-> InitialWeeks[1]] >>

\* C6: a rename_week call that fails (position not a number in 1..N, or a
\* name that is empty or all whitespace) reports an error and leaves every
\* record's name and week_number unchanged.
C6_RejectedRenameUnchanged ==
    [][(StepIs("2") /\ (\/ ~ValidEntry(2)
                        \/ Len(typed') < 3
                        \/ Blank(typed'[3]))) =>
          /\ output'.kind \in ErrorKinds
          /\ ListUnchanged]_vars

\* C6 witness: a whitespace-only name was rejected after an earlier rename.
C6_Witness ==
    /\ typed = << <<"2">>, <<"2">>, <<" ", "\t">> >>
    /\ output.kind = "empty_name"
    /\ \E r \in DOMAIN heap : heap[r].name # InitialWeeks[r]

\* C7: a successful rename_week(p, name) sets the name of the record at
\* list index p to the stripped name and changes nothing else.
C7_RenameOnlyTarget ==
    [][(StepIs("2") /\ ValidEntry(2)) =>
          /\ Len(typed') = 3
          /\ ~Blank(typed'[3]) =>
                LET target == training_program[Entry(2)]
                    name == PyStrip(typed'[3])
                IN  /\ output'.kind = "renamed"
                    /\ training_program' = training_program
                    /\ DOMAIN heap' = DOMAIN heap
                    /\ heap'[target].name = name
                    /\ Head(name) \notin Whitespace
                    /\ name[Len(name)] \notin Whitespace
                    /\ \A r \in DOMAIN heap :
                          /\ heap'[r].week_number = heap[r].week_number
                          /\ r # target => heap'[r].name = heap[r].name]_vars

\* C7 witness: week 1 renamed on a list whose first record is not the
\* initial first week.
C7_Witness ==
    /\ typed = << <<"2">>, <<"1">>, <<" ", "Intro", " ", "Week", "\t">> >>
    /\ output.kind = "renamed"
    /\ N = 3
    /\ training_program[1] # 1
    /\ heap[training_program[1]].name = <<"Intro", " ", "Week">>

-----------------------------------------------------------------------------
(* Properties of the quiz cache, checked under QuizSpec *)

IsPrefix(s, t) == Len(s) <= Len(t) /\ SubSeq(t, 1, Len(s)) = s

Upload(c, w) == Event("upload", c, w, TRUE, <<>>)

\* C8: two admin_upload_content calls with two different content names
\* under the same week id leave '<week id> Checkpoint' holding the two
\* checkpoint questions of the first content followed by the two of the
\* second.
C8_CheckpointHoldsBoth ==
    \A w \in WeekIds, c1 \in ContentNames, c2 \in ContentNames :
        (c1 # c2 /\ console = <<Upload(c1, w), Upload(c2, w)>>) =>
            /\ CheckpointId(w) \in DOMAIN QUIZ_CACHE
            /\ QUIZ_CACHE[CheckpointId(w)].questions =
                  CheckpointQuestions(c1) \o CheckpointQuestions(c2)

\* C9: the cache is append-only: a key once present stays, and the
\* question list of an existing checkpoint entry is a prefix of its
\* question list after any call.
C9_CacheAppendOnly ==
    [][\A k \in DOMAIN QUIZ_CACHE :
          /\ k \in DOMAIN QUIZ_CACHE'
          /\ k \in {CheckpointId(w) : w \in WeekIds} =>
                IsPrefix(QUIZ_CACHE[k].questions, QUIZ_CACHE'[k].questions)]_vars

\* C10: retrieve_quiz_instantly never changes QUIZ_CACHE: an unknown id is
\* reported not found, a known id prints the stored entry, and the cache is
\* the same before and after.
C10_RetrieveReadsOnly ==
    [][\A q \in QuizIds :
          retrieve_quiz_instantly(q) =>
             LET printed == console'[Len(console')]
             IN  /\ QUIZ_CACHE' = QUIZ_CACHE
                 /\ printed.op = "retrieve"
                 /\ printed.found = (q \in DOMAIN QUIZ_CACHE)
                 /\ q \in DOMAIN QUIZ_CACHE =>
                       /\ printed.id = QUIZ_CACHE[q].quiz_id
                       /\ printed.questions = QUIZ_CACHE[q].questions]_vars

\* C10 witness: after an upload, a lookup that missed and a lookup that
\* hit.
C10_Witness ==
    /\ Len(console) = 3
    /\ console[1].op = "upload"
    /\ console[2].op = "retrieve" /\ ~console[2].found
    /\ console[3].op = "retrieve" /\ console[3].found
    /\ Len(console[3].questions) = 2

====
